---------------------------- MODULE Spec2Model ----------------------------
(***************************************************************************)
(* EpiOpener: the opener progression engine.                               *)
(*                                                                         *)
(*   - ActionDetectionService  (parseLogLine, normalizeAbilityId)          *)
(*   - OpenerService           (catalog, createProgress, matches, advance) *)
(*   - OverlayPluginService    (listener registry, callHandler)            *)
(*   - useOverlayStore         (published state)                           *)
(*   - OverlayListener         (the effect: handlers wired to host events) *)
(*                                                                         *)
(* Strings the code converts (ability ids, job codes) are sequences of     *)
(* one-character strings, so that replace / toUpperCase / padStart are     *)
(* computed; strings the code only compares (names, ids of actions) are    *)
(* TLA+ strings.  A nullable value is <<>> (null/undefined) or <<v>>.      *)
(***************************************************************************)
EXTENDS Integers, Sequences, FiniteSets, TLC

NULL == <<>>
Some(v) == <<v>>
IsNull(o) == o = <<>>
Val(o) == o[1]

-----------------------------------------------------------------------------
(* Bounds of the model *)

\* in-flight getCombatants calls
MaxPending == 2
\* values Date.now() can take (1..MaxClock)
MaxClock == 2
\* mounts of the OverlayListener effect (StrictMode mounts twice)
MaxMounts == 2
\* actions of an opener a client of the OpenerService works on
MaxActions == 3
\* markActionMissed calls a client of the OpenerService makes
MaxMissed == 2
\* length of the strings handed to normalizeAbilityId
MaxIdLen == 6
\* fields of the log lines handed to parseLogLine
MaxFields == 9

-----------------------------------------------------------------------------
(* String primitives (JavaScript String.prototype) *)

LowerLetters == <<"a","b","c","d","e","f","g","h","i","j","k","l","m",
                  "n","o","p","q","r","s","t","u","v","w","x","y","z">>
UpperLetters == <<"A","B","C","D","E","F","G","H","I","J","K","L","M",
                  "N","O","P","Q","R","S","T","U","V","W","X","Y","Z">>

upperTable ==
    [c \in {LowerLetters[i] : i \in 1..Len(LowerLetters)} |->
        UpperLetters[CHOOSE i \in 1..Len(LowerLetters) : LowerLetters[i] = c]]

toUpperChar(c) == IF c \in DOMAIN upperTable THEN upperTable[c] ELSE c

\* s.toUpperCase()
toUpperCase(s) == [i \in 1..Len(s) |-> toUpperChar(s[i])]

\* s.replace(/^0x/i, '')
replace0x(s) ==
    IF Len(s) >= 2 /\ s[1] = "0" /\ s[2] \in {"x", "X"}
    THEN SubSeq(s, 3, Len(s))
    ELSE s

\* s.padStart(n, '0')
padStart(s, n) ==
    IF Len(s) >= n THEN s
    ELSE [i \in 1..(n - Len(s)) |-> "0"] \o s

-----------------------------------------------------------------------------
(* OpenerService: ability id normalisation *)

\* variant: ids are padded to the six digits of the definitions' actionId
normalizeAbilityId_pad6(id) == padStart(toUpperCase(replace0x(id)), 6)

normalizeAbilityId(id) == padStart(toUpperCase(replace0x(id)), 4)


-----------------------------------------------------------------------------
(* Opener definitions (src/data/openers/*.json).  An action keeps the      *)
(* fields the engine reads: id and actionId; an opener: id, job, actions.  *)

Action(id, actionId) == [id |-> id, actionId |-> actionId]

WAR == <<"W","A","R">>
BLM == <<"B","L","M">>
PLD == <<"P","L","D">>

warStandardDt71 ==
    [id |-> "war-standard-dt-71", job |-> WAR,
     actions |-> << Action("tomahawk",    <<"0","0","0","2","E","6">>),
                    Action("infuriate-1", <<"0","0","0","9","F","B">>),
                    Action("heavy-swing", <<"0","0","0","1","F","5">>) >>]

blmStandardDt71 ==
    [id |-> "blm-standard-dt-71", job |-> BLM,
     actions |-> << Action("fire-iii",  <<"0","0","0","0","9","8">>),
                    Action("fire-iv-1", <<"0","0","0","D","D","1">>),
                    Action("fire-iv-2", <<"0","0","0","D","D","1">>) >>]

-----------------------------------------------------------------------------
(* A JavaScript Map with string keys: a sequence of <<key, value>> entries *)
(* in insertion order.                                                     *)

MapHas(m, k) == \E i \in 1..Len(m) : m[i][1] = k
MapGet(m, k) == m[CHOOSE i \in 1..Len(m) : m[i][1] = k][2]
MapSet(m, k, v) ==
    IF MapHas(m, k)
    THEN [i \in 1..Len(m) |-> IF m[i][1] = k THEN <<k, v>> ELSE m[i]]
    ELSE Append(m, <<k, v>>)

-----------------------------------------------------------------------------
(* OpenerService *)

\* one iteration of the grouping loop
loadOne(m, opener) ==
    LET existing == IF MapHas(m, opener.job) THEN MapGet(m, opener.job) ELSE <<>>
    IN  MapSet(m, opener.job, Append(existing, opener))

RECURSIVE loadFrom(_, _)
loadFrom(m, defs) ==
    IF defs = <<>> THEN m ELSE loadFrom(loadOne(m, Head(defs)), Tail(defs))

\* the Map built by the constructor from the list of definitions
loadOpeners(allOpeners) == loadFrom(<<>>, allOpeners)

\* the two definitions the service imports
allOpenersImported == <<warStandardDt71, blmStandardDt71>>

\* variant: the job is looked up as given
getOpenersForJob_raw(m, job) ==
    IF MapHas(m, job) THEN MapGet(m, job) ELSE <<>>

getOpenersForJob(m, job) ==
    IF MapHas(m, toUpperCase(job)) THEN MapGet(m, toUpperCase(job)) ELSE <<>>

\* variant: the last opener of the job is the default
getDefaultOpenerForJob_last(m, job) ==
    LET list == getOpenersForJob(m, job)
    IN  IF Len(list) > 0 THEN Some(list[Len(list)]) ELSE NULL

getDefaultOpenerForJob(m, job) ==
    LET list == getOpenersForJob(m, job)
    IN  IF Len(list) > 0 THEN Some(list[1]) ELSE NULL

\* the openers of a list with this id, in order
withId(list, openerId) == SelectSeq(list, LAMBDA o : o.id = openerId)

\* variant: only the list of the first job is searched
getOpenerById_firstList(m, openerId) ==
    IF Len(m) > 0 /\ withId(m[1][2], openerId) # <<>>
    THEN Some(withId(m[1][2], openerId)[1])
    ELSE NULL

\* the lists are searched in the order of the Map's keys; i is the next one
RECURSIVE findById(_, _, _)
findById(m, openerId, i) ==
    IF i > Len(m) THEN NULL
    ELSE IF withId(m[i][2], openerId) # <<>> THEN Some(withId(m[i][2], openerId)[1])
    ELSE findById(m, openerId, i + 1)

getOpenerById(m, openerId) == findById(m, openerId, 1)

\* variant: the clock starts when the progress is created
createProgress_stamped(opener) ==
    [currentIndex     |-> 0,
     completedActions |-> <<>>,
     missedActions    |-> <<>>,
     isComplete       |-> FALSE,
     startTime        |-> Some(1)]

createProgress(opener) ==
    [currentIndex     |-> 0,
     completedActions |-> <<>>,
     missedActions    |-> <<>>,
     isComplete       |-> FALSE,
     startTime        |-> NULL]

\* opener.actions[i] for a 0-based i: the action, or undefined
actionAt(opener, i) ==
    IF i >= 0 /\ i < Len(opener.actions) THEN Some(opener.actions[i + 1]) ELSE NULL

\* variant: an ability that repeats the one of the step before is refused
matchesExpectedAction_notRepeat(opener, progress, abilityId) ==
    LET currentAction == actionAt(opener, progress.currentIndex)
        previous      == actionAt(opener, progress.currentIndex - 1)
    IN  IF IsNull(currentAction) THEN FALSE
        ELSE /\ normalizeAbilityId(abilityId)
                  = normalizeAbilityId(Val(currentAction).actionId)
             /\ \/ IsNull(previous)
                \/ normalizeAbilityId(abilityId)
                     # normalizeAbilityId(Val(previous).actionId)

\* variant: the detected id is compared as received, without normalising it
matchesExpectedAction_raw(opener, progress, abilityId) ==
    LET currentAction == actionAt(opener, progress.currentIndex)
    IN  IF IsNull(currentAction) THEN FALSE
        ELSE abilityId = normalizeAbilityId(Val(currentAction).actionId)

\* variant: the detected id may match any action from currentIndex on
matchesExpectedAction_anyLater(opener, progress, abilityId) ==
    \E i \in (progress.currentIndex + 1)..Len(opener.actions) :
        normalizeAbilityId(abilityId) = normalizeAbilityId(opener.actions[i].actionId)

matchesExpectedAction(opener, progress, abilityId) ==
    LET currentAction == actionAt(opener, progress.currentIndex)
    IN  IF IsNull(currentAction) THEN FALSE
        ELSE normalizeAbilityId(abilityId)
               = normalizeAbilityId(Val(currentAction).actionId)

\* variant: the completed id is put in front of the list
advanceProgress_prepend(opener, progress, t) ==
    LET currentAction == actionAt(opener, progress.currentIndex)
        newIndex == progress.currentIndex + 1
    IN  IF IsNull(currentAction) THEN progress
        ELSE [progress EXCEPT
                !.currentIndex = newIndex,
                !.completedActions = <<Val(currentAction).id>> \o @,
                !.startTime = IF IsNull(@) THEN Some(t) ELSE @,
                !.isComplete = IF newIndex >= Len(opener.actions) THEN TRUE ELSE @]

\* variant: no early return when there is no current action
advanceProgress_noGuard(opener, progress, t) ==
    LET currentAction == actionAt(opener, progress.currentIndex)
        newIndex == progress.currentIndex + 1
    IN  [progress EXCEPT
           !.currentIndex = newIndex,
           !.completedActions =
               Append(@, IF IsNull(currentAction) THEN "undefined"
                         ELSE Val(currentAction).id),
           !.startTime = IF IsNull(@) THEN Some(t) ELSE @,
           !.isComplete = IF newIndex >= Len(opener.actions) THEN TRUE ELSE @]

\* variant: completion tested with > instead of >=
advanceProgress_gt(opener, progress, t) ==
    LET currentAction == actionAt(opener, progress.currentIndex)
        newIndex == progress.currentIndex + 1
    IN  IF IsNull(currentAction) THEN progress
        ELSE [progress EXCEPT
                !.currentIndex = newIndex,
                !.completedActions = Append(@, Val(currentAction).id),
                !.startTime = IF IsNull(@) THEN Some(t) ELSE @,
                !.isComplete = IF newIndex > Len(opener.actions) THEN TRUE ELSE @]

\* variant: every advance stamps the time again
advanceProgress_restamp(opener, progress, t) ==
    LET currentAction == actionAt(opener, progress.currentIndex)
        newIndex == progress.currentIndex + 1
    IN  IF IsNull(currentAction) THEN progress
        ELSE [progress EXCEPT
                !.currentIndex = newIndex,
                !.completedActions = Append(@, Val(currentAction).id),
                !.startTime = Some(t),
                !.isComplete = IF newIndex >= Len(opener.actions) THEN TRUE ELSE @]

\* t is the value of Date.now()
advanceProgress(opener, progress, t) ==
    LET currentAction == actionAt(opener, progress.currentIndex)
        newIndex == progress.currentIndex + 1
    IN  IF IsNull(currentAction) THEN progress
        ELSE [progress EXCEPT
                !.currentIndex = newIndex,
                !.completedActions = Append(@, Val(currentAction).id),
                !.startTime = IF IsNull(@) THEN Some(t) ELSE @,
                !.isComplete = IF newIndex >= Len(opener.actions) THEN TRUE ELSE @]

\* variant: no early return when there is no current action
markActionMissed_noGuard(opener, progress) ==
    LET currentAction == actionAt(opener, progress.currentIndex)
    IN  [progress EXCEPT
           !.missedActions = Append(@, IF IsNull(currentAction) THEN "undefined"
                                       ELSE Val(currentAction).id)]

\* variant: a missed action is skipped
markActionMissed_skips(opener, progress) ==
    LET currentAction == actionAt(opener, progress.currentIndex)
    IN  IF IsNull(currentAction) THEN progress
        ELSE [progress EXCEPT !.missedActions = Append(@, Val(currentAction).id),
                              !.currentIndex = @ + 1]

markActionMissed(opener, progress) ==
    LET currentAction == actionAt(opener, progress.currentIndex)
    IN  IF IsNull(currentAction) THEN progress
        ELSE [progress EXCEPT !.missedActions = Append(@, Val(currentAction).id)]

-----------------------------------------------------------------------------
(* ActionDetectionService *)

\* variant: one more type code is taken for an ability
ACTION_LOG_TYPES_wider == {"21", "22", "23"}

ACTION_LOG_TYPES == {"21", "22"}

\* variant: the parser pads to 8 characters
ActionDetection_normalizeAbilityId_pad8(id) == padStart(toUpperCase(replace0x(id)), 8)

ActionDetection_normalizeAbilityId(id) == padStart(toUpperCase(replace0x(id)), 4)

\* line[i] for a 0-based i: the field, or undefined
field(line, i) == IF i < Len(line) THEN Some(line[i + 1]) ELSE NULL

\* line[i] || '' for the fields that are plain strings
fieldOrEmpty(line, i) == IF i < Len(line) THEN line[i + 1] ELSE ""

\* variant: a missing target is given as an empty string
parseLogLine_targetDefault(line) ==
    IF Len(line) < 6 THEN NULL
    ELSE IF line[1] = "" \/ line[1] \notin ACTION_LOG_TYPES THEN NULL
    ELSE Some([timestamp   |-> fieldOrEmpty(line, 1),
               sourceId    |-> fieldOrEmpty(line, 2),
               sourceName  |-> fieldOrEmpty(line, 3),
               abilityId   |-> ActionDetection_normalizeAbilityId(line[5]),
               abilityName |-> fieldOrEmpty(line, 5),
               targetId    |-> Some(fieldOrEmpty(line, 6)),
               targetName  |-> Some(fieldOrEmpty(line, 7))])

parseLogLine(line) ==
    IF Len(line) < 6 THEN NULL
    ELSE IF line[1] = "" \/ line[1] \notin ACTION_LOG_TYPES THEN NULL
    ELSE Some([timestamp   |-> fieldOrEmpty(line, 1),
               sourceId    |-> fieldOrEmpty(line, 2),
               sourceName  |-> fieldOrEmpty(line, 3),
               abilityId   |-> ActionDetection_normalizeAbilityId(line[5]),
               abilityName |-> fieldOrEmpty(line, 5),
               targetId    |-> field(line, 6),
               targetName  |-> field(line, 7)])

-----------------------------------------------------------------------------
(* lib/jobs: job name of a numeric job code *)

JobCodes == {19, 21, 25}

getJobName(code) ==
    CASE code = 19 -> PLD
      [] code = 21 -> WAR
      [] code = 25 -> BLM
      [] OTHER     -> <<"U","N","K","N","O","W","N">>

-----------------------------------------------------------------------------
(* State *)

VARIABLES
    openers,        \* OpenerService.openers: Map job -> list of Opener
    isAvailable,    \* OverlayPluginService.isAvailable
    listeners,      \* OverlayPluginService.listeners: set of <<eventType, callback>>
    hostListeners,  \* callbacks registered with window.addOverlayListener
    hostStarted,    \* window.startOverlayEvents() has been called
    store,          \* useOverlayStore state
    pending,        \* fetchPlayerJob calls suspended at the await
    mounts,         \* times the OverlayListener effect has run
    mounted,        \* the effect is live (its cleanup has not run)
    lastEvent,      \* history: the last step taken and, for a log line, its outcome
    mOpener,        \* matcher client: the opener it works on
    mProgress,      \* matcher client: the progress it holds
    mLast           \* a service's client: the last call, its arguments and its result

bridgeVars == <<isAvailable, listeners, hostListeners, hostStarted, store,
                pending, mounts, mounted, lastEvent>>
matcherVars == <<mOpener, mProgress, mLast>>
vars == <<openers, bridgeVars, matcherVars>>

EventTypes == {"ChangePrimaryPlayer", "PartyChanged", "ChangeZone", "CombatData", "LogLine"}

-----------------------------------------------------------------------------
(* useOverlayStore *)

initialState ==
    [playerName     |-> NULL,
     playerCharId   |-> NULL,
     playerJob      |-> NULL,
     currentZone    |-> NULL,
     currentZoneId  |-> NULL,
     inCombat       |-> FALSE,
     encounterTitle |-> NULL,
     currentOpener  |-> NULL,
     openerProgress |-> NULL]

\* the template string `Zone ${zoneId}`
ZoneLabel(zoneId) == IF zoneId = 1 THEN "Zone 1" ELSE "Zone 2"

setPlayer(st, charId, charName) ==
    [st EXCEPT !.playerCharId = Some(charId), !.playerName = Some(charName)]

setPlayerJob(st, job) == [st EXCEPT !.playerJob = Some(job)]

\* zoneName is optional
setZone(st, zoneId, zoneName) ==
    [st EXCEPT !.currentZoneId = Some(zoneId),
               !.currentZone = IF IsNull(zoneName) \/ zoneName = Some("")
                               THEN Some(ZoneLabel(zoneId)) ELSE zoneName]

\* encounterTitle is optional
setCombatState(st, active, encounterTitle) ==
    [st EXCEPT !.inCombat = active,
               !.encounterTitle = IF IsNull(encounterTitle) \/ encounterTitle = Some("")
                                  THEN NULL ELSE encounterTitle]

\* opener is an Opener or null
setCurrentOpener(st, opener) == [st EXCEPT !.currentOpener = opener]

\* progress is an OpenerProgress or null
setOpenerProgress(st, progress) == [st EXCEPT !.openerProgress = progress]

-----------------------------------------------------------------------------
(* OverlayPluginService.  reg is the pair of registries a call touches:    *)
(* the service's own Map of callbacks and the host's.                      *)

\* variant: the availability of the host is not tested
addEventListener_noCheck(avail, reg, eventType, callback) ==
    [listeners |-> reg.listeners \cup {<<eventType, callback>>},
     host      |-> reg.host \cup {<<eventType, callback>>}]

addEventListener(avail, reg, eventType, callback) ==
    IF ~avail THEN reg
    ELSE [listeners |-> reg.listeners \cup {<<eventType, callback>>},
          host      |-> reg.host \cup {<<eventType, callback>>}]

\* variant: the callback is forgotten by the service but stays with the host
removeEventListener_serviceOnly(avail, reg, eventType, callback) ==
    IF ~avail THEN reg
    ELSE [listeners |-> reg.listeners \ {<<eventType, callback>>},
          host      |-> reg.host]

removeEventListener(avail, reg, eventType, callback) ==
    IF ~avail THEN reg
    ELSE [listeners |-> reg.listeners \ {<<eventType, callback>>},
          host      |-> reg.host \ {<<eventType, callback>>}]

\* every callback the service tracks is removed from the host, then the Map
\* is cleared; the availability of the host is not tested
cleanup(reg) ==
    [listeners |-> {},
     host      |-> reg.host \ reg.listeners]

\* started is the host's flag; the result is its new value
startEvents(avail, started) == IF ~avail THEN started ELSE TRUE

\* what window.callOverlayHandler does with a call: the promise rejects, or
\* resolves to a value
Rejected == [kind |-> "reject", value |-> NULL]
Resolved(v) == [kind |-> "resolve", value |-> v]

\* the value the promise returned by callHandler resolves to
callHandler(avail, outcome) ==
    IF ~avail THEN NULL
    ELSE IF outcome.kind = "reject" THEN NULL
    ELSE outcome.value

-----------------------------------------------------------------------------
(* OverlayListener: the handlers, as functions of the store *)

\* variant: a progress that already exists is kept when the opener is replaced
fetchPlayerJobResume_keepProgress(st, m, result) ==
    IF IsNull(result) THEN st
    ELSE IF IsNull(Val(result).combatants) THEN st
    ELSE IF Len(Val(Val(result).combatants)) = 0 THEN st
    ELSE LET player  == Val(Val(result).combatants)[1]
             jobName == getJobName(player.Job)
             st1     == setPlayerJob(st, jobName)
             opener  == getDefaultOpenerForJob(m, jobName)
         IN  IF IsNull(opener) THEN st1
             ELSE IF ~IsNull(st1.openerProgress) THEN setCurrentOpener(st1, opener)
             ELSE setOpenerProgress(setCurrentOpener(st1, opener),
                                    Some(createProgress(Val(opener))))

\* variant: the opener is published but no progress is created for it
fetchPlayerJobResume_openerOnly(st, m, result) ==
    IF IsNull(result) THEN st
    ELSE IF IsNull(Val(result).combatants) THEN st
    ELSE IF Len(Val(Val(result).combatants)) = 0 THEN st
    ELSE LET player  == Val(Val(result).combatants)[1]
             jobName == getJobName(player.Job)
             st1     == setPlayerJob(st, jobName)
             opener  == getDefaultOpenerForJob(m, jobName)
         IN  IF IsNull(opener) THEN st1
             ELSE setCurrentOpener(st1, opener)

\* variant: a fetch without a usable result clears the active pair
fetchPlayerJobResume_clearOnEmpty(st, m, result) ==
    IF \/ IsNull(result)
       \/ IsNull(Val(result).combatants)
       \/ Len(Val(Val(result).combatants)) = 0
    THEN setOpenerProgress(setCurrentOpener(st, NULL), NULL)
    ELSE LET player  == Val(Val(result).combatants)[1]
             jobName == getJobName(player.Job)
             st1     == setPlayerJob(st, jobName)
             opener  == getDefaultOpenerForJob(m, jobName)
         IN  IF IsNull(opener) THEN st1
             ELSE setOpenerProgress(setCurrentOpener(st1, opener),
                                    Some(createProgress(Val(opener))))

\* fetchPlayerJob after the await: result is what callHandler resolved to
fetchPlayerJobResume(st, m, result) ==
    IF IsNull(result) THEN st
    ELSE IF IsNull(Val(result).combatants) THEN st
    ELSE IF Len(Val(Val(result).combatants)) = 0 THEN st
    ELSE LET player  == Val(Val(result).combatants)[1]
             jobName == getJobName(player.Job)
             st1     == setPlayerJob(st, jobName)
             opener  == getDefaultOpenerForJob(m, jobName)
         IN  IF IsNull(opener) THEN st1
             ELSE setOpenerProgress(setCurrentOpener(st1, opener),
                                    Some(createProgress(Val(opener))))

\* the synchronous part; the fetch it starts is counted by the caller
handlePlayerChange(st, data) == setPlayer(st, data.charID, data.charName)

\* party.find(member => member.name === name): the first such member, or undefined
findMember(party, name) ==
    IF \E i \in 1..Len(party) : party[i].name = name
    THEN Some(party[CHOOSE i \in 1..Len(party) :
                      /\ party[i].name = name
                      /\ \A j \in 1..(i - 1) : party[j].name # name])
    ELSE NULL

handlePartyChange(st, data) ==
    LET currentPlayerName == st.playerName
    IN  IF IsNull(currentPlayerName) \/ currentPlayerName = Some("") THEN st
        ELSE LET playerInParty == findMember(data.party, Val(currentPlayerName))
             IN  IF IsNull(playerInParty) THEN st
                 ELSE setPlayerJob(st, getJobName(Val(playerInParty).job))

\* the synchronous part; the fetch it starts is counted by the caller
handleZoneChange(st, data) == setZone(st, data.zoneID, data.zoneName)

\* variant: the end of combat discards the progress
handleCombatData_resets(st, data) ==
    LET st1 == setCombatState(st, data.isActive = "true",
                              IF IsNull(data.Encounter) THEN NULL
                              ELSE Some(Val(data.Encounter).title))
    IN  IF data.isActive = "true" THEN st1 ELSE setOpenerProgress(st1, NULL)

handleCombatData(st, data) ==
    setCombatState(st, data.isActive = "true",
                   IF IsNull(data.Encounter) THEN NULL
                   ELSE Some(Val(data.Encounter).title))

\* variant: a mismatch is recorded as a missed action
handleLogLine_missOnMismatch(st, data, t) ==
    LET action == parseLogLine(data.line)
    IN  IF IsNull(action) THEN st
        ELSE IF \/ IsNull(st.playerName) \/ st.playerName = Some("")
                \/ Val(action).sourceName # Val(st.playerName) THEN st
        ELSE IF /\ ~IsNull(st.currentOpener)
                /\ ~IsNull(st.openerProgress)
                /\ ~Val(st.openerProgress).isComplete
             THEN IF matchesExpectedAction(Val(st.currentOpener),
                                           Val(st.openerProgress),
                                           Val(action).abilityId)
                  THEN setOpenerProgress(st,
                         Some(advanceProgress(Val(st.currentOpener),
                                              Val(st.openerProgress), t)))
                  ELSE setOpenerProgress(st,
                         Some(markActionMissed(Val(st.currentOpener),
                                               Val(st.openerProgress))))
             ELSE st

\* variant: the source of the action is not compared with the tracked player
handleLogLine_anySource(st, data, t) ==
    LET action == parseLogLine(data.line)
    IN  IF IsNull(action) THEN st
        ELSE IF /\ ~IsNull(st.currentOpener)
                /\ ~IsNull(st.openerProgress)
                /\ ~Val(st.openerProgress).isComplete
             THEN IF matchesExpectedAction(Val(st.currentOpener),
                                           Val(st.openerProgress),
                                           Val(action).abilityId)
                  THEN setOpenerProgress(st,
                         Some(advanceProgress(Val(st.currentOpener),
                                              Val(st.openerProgress), t)))
                  ELSE st
             ELSE st

\* t is the value of Date.now()
handleLogLine(st, data, t) ==
    LET action == parseLogLine(data.line)
    IN  IF IsNull(action) THEN st
        ELSE IF \/ IsNull(st.playerName) \/ st.playerName = Some("")
                \/ Val(action).sourceName # Val(st.playerName) THEN st
        ELSE IF /\ ~IsNull(st.currentOpener)
                /\ ~IsNull(st.openerProgress)
                /\ ~Val(st.openerProgress).isComplete
             THEN IF matchesExpectedAction(Val(st.currentOpener),
                                           Val(st.openerProgress),
                                           Val(action).abilityId)
                  THEN setOpenerProgress(st,
                         Some(advanceProgress(Val(st.currentOpener),
                                              Val(st.openerProgress), t)))
                  ELSE st
             ELSE st

-----------------------------------------------------------------------------
(* What the host can send *)

PlayerNames == {"Alice", "Bob"}

PlayerInputs == {[charID |-> "id-alice", charName |-> "Alice"],
                 [charID |-> "id-bob",   charName |-> "Bob"]}

\* getCombatants: lists of at most two combatants with different names
CombatantInputs == [Name : PlayerNames, Job : JobCodes]
RosterInputs ==
    {<<>>} \cup {<<c>> : c \in CombatantInputs}
           \cup {<<c, [Name |-> "Bob", Job |-> 19]>> : c \in CombatantInputs}
HostOutcomes ==
    {Rejected, Resolved(NULL), Resolved(Some([combatants |-> NULL]))}
      \cup {Resolved(Some([combatants |-> Some(r)])) : r \in RosterInputs}

MemberInputs == [name : PlayerNames, job : JobCodes]
PartyInputs ==
    {[party |-> <<>>]} \cup {[party |-> <<c>>] : c \in MemberInputs}
      \cup {[party |-> <<[name |-> "Bob", job |-> 19], d>>] : d \in MemberInputs}

ZoneInputs == {[zoneID |-> 1, zoneName |-> NULL], [zoneID |-> 2, zoneName |-> Some("Limsa")]}

CombatInputs ==
    { [isActive |-> "true",  Encounter |-> Some([title |-> "Boss"])],
      [isActive |-> "false", Encounter |-> Some([title |-> ""])],
      [isActive |-> "false", Encounter |-> NULL] }

\* field [4] of a log line
AbilityIdInputs ==
    { <<"0","0","0","2","E","6">>,          \* Tomahawk
      <<"0","0","0","9","F","B">>,          \* Infuriate
      <<"0","0","0","1","F","5">>,          \* Heavy Swing
      <<"0","0","0","0","9","8">>,          \* Fire III
      <<"0","0","0","D","D","1">>,          \* Fire IV
      <<"0","x","0","0","0","2","e","6">>,  \* Tomahawk, prefixed and lower case
      <<"2","E","6">>,                      \* Tomahawk without leading zeros
      <<>> }

Line(type, sourceName, abilityId) ==
    <<type, "ts", "1000", sourceName, abilityId, "Ability">>

LogLineInputs ==
    {Line("21", "Alice", a) : a \in AbilityIdInputs}
      \cup {Line("21", n, <<"0","0","0","2","E","6">>) : n \in {"Bob", ""}}
      \cup {Line("22", "Bob", <<"0","0","0","0","9","8">>)}
      \cup { Line("00", "Alice", <<"0","0","0","2","E","6">>),
             Line("", "Alice", <<"0","0","0","2","E","6">>),
             <<"21", "ts", "1000", "Alice", <<"0","0","0","2","E","6">>>>,
             Line("21", "Alice", <<"0","0","0","2","E","6">>) \o <<"4000", "Dummy">> }

Times == 1..MaxClock

-----------------------------------------------------------------------------
(* Initial state: the module-level singletons are constructed, the store   *)
(* holds initialState, the component is not mounted yet.                   *)

MatcherIdle ==
    /\ mOpener = NULL
    /\ mProgress = NULL
    /\ mLast = NULL

Init ==
    /\ openers = loadOpeners(allOpenersImported)
    /\ isAvailable \in BOOLEAN
    /\ listeners = {}
    /\ hostListeners = {}
    /\ hostStarted = FALSE
    /\ store = initialState
    /\ pending = 0
    /\ mounts = 0
    /\ mounted = FALSE
    /\ lastEvent = "init"
    /\ MatcherIdle

-----------------------------------------------------------------------------
(* The OverlayListener effect.  The callbacks of one run of the effect are *)
(* closures created by that run: a callback is identified by the run.      *)

effectRegister(avail, reg, cb) ==
    addEventListener(avail,
      addEventListener(avail,
        addEventListener(avail,
          addEventListener(avail,
            addEventListener(avail, reg, "ChangePrimaryPlayer", cb),
            "PartyChanged", cb),
          "ChangeZone", cb),
        "CombatData", cb),
      "LogLine", cb)

\* variant: the LogLine listener is left registered
effectCleanup_keepsLogLine(avail, reg, cb) ==
    removeEventListener(avail,
      removeEventListener(avail,
        removeEventListener(avail,
          removeEventListener(avail, reg, "ChangePrimaryPlayer", cb),
          "PartyChanged", cb),
        "ChangeZone", cb),
      "CombatData", cb)

effectCleanup(avail, reg, cb) ==
    removeEventListener(avail,
      removeEventListener(avail,
        removeEventListener(avail,
          removeEventListener(avail,
            removeEventListener(avail, reg, "ChangePrimaryPlayer", cb),
            "PartyChanged", cb),
          "ChangeZone", cb),
        "CombatData", cb),
      "LogLine", cb)

\* the effect body: register the five listeners, start events, fetch the job
Mount ==
    /\ ~mounted
    /\ mounts < MaxMounts
    /\ pending < MaxPending
    /\ LET reg == effectRegister(isAvailable,
                                 [listeners |-> listeners, host |-> hostListeners],
                                 mounts + 1)
       IN  /\ listeners' = reg.listeners
           /\ hostListeners' = reg.host
    /\ hostStarted' = startEvents(isAvailable, hostStarted)
    /\ pending' = pending + 1
    /\ mounts' = mounts + 1
    /\ mounted' = TRUE
    /\ lastEvent' = "Mount"
    /\ UNCHANGED <<openers, isAvailable, store, matcherVars>>

\* the cleanup the effect returns
Unmount ==
    /\ mounted
    /\ LET reg == effectCleanup(isAvailable,
                                [listeners |-> listeners, host |-> hostListeners],
                                mounts)
       IN  /\ listeners' = reg.listeners
           /\ hostListeners' = reg.host
    /\ mounted' = FALSE
    /\ lastEvent' = "Unmount"
    /\ UNCHANGED <<openers, isAvailable, hostStarted, store, pending, mounts, matcherVars>>

-----------------------------------------------------------------------------
(* Host events.  The host calls, one after the other, every callback       *)
(* registered for the event's type; nothing else runs in between.          *)

registered(eventType) == Cardinality({e \in hostListeners : e[1] = eventType})

invoke(eventType, st, data, t) ==
    CASE eventType = "ChangePrimaryPlayer" -> handlePlayerChange(st, data)
      [] eventType = "PartyChanged"        -> handlePartyChange(st, data)
      [] eventType = "ChangeZone"          -> handleZoneChange(st, data)
      [] eventType = "CombatData"          -> handleCombatData(st, data)
      [] eventType = "LogLine"             -> handleLogLine(st, data, t)

RECURSIVE dispatch(_, _, _, _, _)
dispatch(eventType, n, st, data, t) ==
    IF n = 0 THEN st
    ELSE dispatch(eventType, n - 1, invoke(eventType, st, data, t), data, t)

\* which branch of handleLogLine a line takes in store st
logOutcome(st, data) ==
    LET action == parseLogLine(data.line)
    IN  IF IsNull(action) THEN "LogLine:ignored"
        ELSE IF \/ IsNull(st.playerName) \/ st.playerName = Some("")
                \/ Val(action).sourceName # Val(st.playerName)
             THEN "LogLine:dropped"
        ELSE IF \/ IsNull(st.currentOpener) \/ IsNull(st.openerProgress)
             THEN "LogLine:idle"
        ELSE IF Val(st.openerProgress).isComplete THEN "LogLine:complete"
        ELSE IF matchesExpectedAction(Val(st.currentOpener), Val(st.openerProgress),
                                      Val(action).abilityId)
             THEN "LogLine:advanced"
        ELSE "LogLine:mismatch"

\* variant: no event is delivered while a fetch awaits its response
Delivers_whenIdle(eventType) ==
    hostStarted /\ registered(eventType) > 0 /\ pending = 0

Delivers(eventType) == hostStarted /\ registered(eventType) > 0

ChangePrimaryPlayer(data) ==
    /\ Delivers("ChangePrimaryPlayer")
    /\ pending + registered("ChangePrimaryPlayer") <= MaxPending
    /\ store' = dispatch("ChangePrimaryPlayer", registered("ChangePrimaryPlayer"),
                         store, data, 0)
    /\ pending' = pending + registered("ChangePrimaryPlayer")
    /\ lastEvent' = "ChangePrimaryPlayer"
    /\ UNCHANGED <<openers, isAvailable, listeners, hostListeners, hostStarted,
                   mounts, mounted, matcherVars>>

PartyChanged(data) ==
    /\ Delivers("PartyChanged")
    /\ store' = dispatch("PartyChanged", registered("PartyChanged"), store, data, 0)
    /\ lastEvent' = "PartyChanged"
    /\ UNCHANGED <<openers, isAvailable, listeners, hostListeners, hostStarted,
                   pending, mounts, mounted, matcherVars>>

ChangeZone(data) ==
    /\ Delivers("ChangeZone")
    /\ pending + registered("ChangeZone") <= MaxPending
    /\ store' = dispatch("ChangeZone", registered("ChangeZone"), store, data, 0)
    /\ pending' = pending + registered("ChangeZone")
    /\ lastEvent' = "ChangeZone"
    /\ UNCHANGED <<openers, isAvailable, listeners, hostListeners, hostStarted,
                   mounts, mounted, matcherVars>>

CombatData(data) ==
    /\ Delivers("CombatData")
    /\ store' = dispatch("CombatData", registered("CombatData"), store, data, 0)
    /\ lastEvent' = "CombatData"
    /\ UNCHANGED <<openers, isAvailable, listeners, hostListeners, hostStarted,
                   pending, mounts, mounted, matcherVars>>

\* variant: a roster response that is pending is applied between the handler's
\* read of the active pair and its publish of the advanced progress
LogLine_interleaved(data, t) ==
    /\ Delivers("LogLine")
    /\ IF pending > 0 /\ isAvailable /\ logOutcome(store, data) = "LogLine:advanced"
       THEN /\ \E outcome \in HostOutcomes :
                 store' = setOpenerProgress(
                            fetchPlayerJobResume(store, openers,
                                                 callHandler(isAvailable, outcome)),
                            dispatch("LogLine", registered("LogLine"), store, data, t)
                              .openerProgress)
            /\ pending' = pending - 1
       ELSE /\ store' = dispatch("LogLine", registered("LogLine"), store, data, t)
            /\ pending' = pending
    /\ lastEvent' = logOutcome(store, data)
    /\ UNCHANGED <<openers, isAvailable, listeners, hostListeners, hostStarted,
                   mounts, mounted, matcherVars>>

LogLine(data, t) ==
    /\ Delivers("LogLine")
    /\ store' = dispatch("LogLine", registered("LogLine"), store, data, t)
    /\ lastEvent' = logOutcome(store, data)
    /\ UNCHANGED <<openers, isAvailable, listeners, hostListeners, hostStarted,
                   pending, mounts, mounted, matcherVars>>

\* a suspended fetchPlayerJob resumes with what callHandler resolved to
FetchResponse(outcome) ==
    /\ pending > 0
    /\ isAvailable \/ outcome = Rejected
    /\ store' = fetchPlayerJobResume(store, openers, callHandler(isAvailable, outcome))
    /\ pending' = pending - 1
    /\ lastEvent' = "FetchResponse"
    /\ UNCHANGED <<openers, isAvailable, listeners, hostListeners, hostStarted,
                   mounts, mounted, matcherVars>>

Next ==
    \/ Mount
    \/ Unmount
    \/ \E data \in PlayerInputs : ChangePrimaryPlayer(data)
    \/ \E data \in PartyInputs : PartyChanged(data)
    \/ \E data \in ZoneInputs : ChangeZone(data)
    \/ \E data \in CombatInputs : CombatData(data)
    \/ \E line \in LogLineInputs, t \in Times : LogLine([line |-> line], t)
    \/ \E outcome \in HostOutcomes : FetchResponse(outcome)

Spec == Init /\ [][Next]_vars

-----------------------------------------------------------------------------
(* A client of the OpenerService: it holds one opener and the progress it  *)
(* created for it, and calls matchesExpectedAction, advanceProgress and    *)
(* markActionMissed, or hands a log line of the tracked player to          *)
(* handleLogLine, in any order.  Openers range over every non-empty        *)
(* sequence of at most MaxActions actions (an Opener's sequence is never   *)
(* empty), with action ids in canonical and in raw spelling.               *)

ActionIdInputs == { <<"0","0","0","2","E","6">>, <<"0","x","2","e","6">> }

ActionName(i) == CASE i = 1 -> "a1" [] i = 2 -> "a2" [] i = 3 -> "a3"
                   [] i = 4 -> "a4" [] OTHER -> "a5"

OpenerInputs ==
    {warStandardDt71, blmStandardDt71} \cup
    UNION { { [id |-> "generated", job |-> WAR,
               actions |-> [i \in 1..n |-> Action(ActionName(i), ids[i])]] :
              ids \in [1..n -> ActionIdInputs] } : n \in 1..MaxActions }

Call(op, before, abilityId, result) ==
    [op |-> op, before |-> before, abilityId |-> abilityId, result |-> result]

BridgeIdle ==
    /\ openers = loadOpeners(allOpenersImported)
    /\ isAvailable = FALSE
    /\ listeners = {}
    /\ hostListeners = {}
    /\ hostStarted = FALSE
    /\ store = initialState
    /\ pending = 0
    /\ mounts = 0
    /\ mounted = FALSE
    /\ lastEvent = "init"

InitMatcher ==
    /\ BridgeIdle
    /\ mOpener \in OpenerInputs
    /\ mProgress = createProgress(mOpener)
    /\ mLast = Call("createProgress", mProgress, <<>>, FALSE)

MatcherMatches(abilityId) ==
    /\ mLast' = Call("matchesExpectedAction", mProgress, abilityId,
                     matchesExpectedAction(mOpener, mProgress, abilityId))
    /\ UNCHANGED <<openers, bridgeVars, mOpener, mProgress>>

MatcherAdvance(t) ==
    /\ mProgress' = advanceProgress(mOpener, mProgress, t)
    /\ mLast' = Call("advanceProgress", mProgress, <<>>, FALSE)
    /\ UNCHANGED <<openers, bridgeVars, mOpener>>

MatcherMarkMissed ==
    /\ Len(mProgress.missedActions) < MaxMissed
    /\ mProgress' = markActionMissed(mOpener, mProgress)
    /\ mLast' = Call("markActionMissed", mProgress, <<>>, FALSE)
    /\ UNCHANGED <<openers, bridgeVars, mOpener>>

\* the store as the bridge holds it while the client's pair is the active one
matcherStore ==
    [initialState EXCEPT !.playerName = Some("Alice"),
                         !.playerCharId = Some("id-alice"),
                         !.currentOpener = Some(mOpener),
                         !.openerProgress = Some(mProgress)]

MatcherLogLine(line, t) ==
    /\ mProgress' = Val(handleLogLine(matcherStore, [line |-> line], t).openerProgress)
    /\ mLast' = Call("handleLogLine", mProgress, line[5], FALSE)
    /\ UNCHANGED <<openers, bridgeVars, mOpener>>

NextMatcher ==
    \/ \E a \in AbilityIdInputs \cup ActionIdInputs : MatcherMatches(a)
    \/ \E t \in Times : MatcherAdvance(t)
    \/ MatcherMarkMissed
    \/ \E a \in AbilityIdInputs \cup ActionIdInputs, t \in Times :
          MatcherLogLine(Line("21", "Alice", a), t)

SpecMatcher == InitMatcher /\ [][NextMatcher]_vars

-----------------------------------------------------------------------------
(* Properties of the matcher (SpecMatcher) *)

\* 0-based index i is a position of the opener's action list
InRange(opener, i) == i >= 0 /\ i < Len(opener.actions)

\* C1: matchesExpectedAction(opener, progress, id) is true exactly when
\* progress.currentIndex is less than the number of actions and the normalised
\* id equals the normalised actionId of the action at currentIndex; it is false
\* for every complete progress.
C1_MatchesIff ==
    mLast.op = "matchesExpectedAction" =>
        LET p == mLast.before
        IN  /\ mLast.result <=>
                 /\ p.currentIndex < Len(mOpener.actions)
                 /\ normalizeAbilityId(mLast.abilityId)
                      = normalizeAbilityId(mOpener.actions[p.currentIndex + 1].actionId)
            /\ p.isComplete => ~mLast.result

\* a match past the first step in which the detected id is spelled differently
\* from the definition's actionId
C1_Witness ==
    /\ mLast.op = "matchesExpectedAction"
    /\ mLast.result
    /\ mLast.before.currentIndex > 0
    /\ mLast.abilityId # mOpener.actions[mLast.before.currentIndex + 1].actionId

\* C2: on a progress that is not complete, advanceProgress adds exactly 1 to
\* currentIndex and appends exactly one element to completedActions, the id of
\* the action at the old currentIndex.
C2_AdvanceOneStep ==
    (mLast.op = "advanceProgress" /\ ~mLast.before.isComplete) =>
        LET p == mLast.before
        IN  /\ mProgress.currentIndex = p.currentIndex + 1
            /\ InRange(mOpener, p.currentIndex)
            /\ mProgress.completedActions
                 = Append(p.completedActions, mOpener.actions[p.currentIndex + 1].id)

\* an advance from the middle of an opener
C2_Witness ==
    /\ mLast.op = "advanceProgress"
    /\ ~mLast.before.isComplete
    /\ mLast.before.currentIndex > 0
    /\ mProgress.currentIndex = mLast.before.currentIndex + 1

\* C3: advanceProgress on a progress that is complete, or whose currentIndex is
\* outside the action list, returns the progress unchanged in every field.
C3_AdvanceNoOp ==
    (/\ mLast.op = "advanceProgress"
     /\ \/ mLast.before.isComplete
        \/ ~InRange(mOpener, mLast.before.currentIndex)) =>
        mProgress = mLast.before

\* advanceProgress was called on a complete progress
C3_Witness ==
    /\ mLast.op = "advanceProgress"
    /\ mLast.before.isComplete
    /\ mLast.before.currentIndex = Len(mOpener.actions)

\* C5: isComplete is true exactly when currentIndex equals the number of actions
\* of the opener the progress belongs to, directly after createProgress and after
\* every later call.
C5_CompleteIffAtEnd ==
    mProgress.isComplete <=> (mProgress.currentIndex = Len(mOpener.actions))

\* the call that moved the progress onto the end of the opener
C5_Witness ==
    /\ mLast.op \in {"advanceProgress", "handleLogLine"}
    /\ ~mLast.before.isComplete
    /\ mProgress.isComplete
    /\ mProgress.currentIndex = Len(mOpener.actions)

\* C6: once currentIndex equals the opener's length, no advanceProgress call,
\* markActionMissed call or log line yields a progress that differs from it or
\* that is not complete.
C6_CompleteIsTerminal ==
    [][ (mProgress.currentIndex = Len(mOpener.actions)) =>
            (mProgress' = mProgress /\ mProgress'.isComplete) ]_vars

\* markActionMissed or a log line carrying the last action's ability acted on
\* a complete progress
C6_Witness ==
    /\ mProgress.currentIndex = Len(mOpener.actions)
    /\ mLast.before.currentIndex = Len(mOpener.actions)
    /\ \/ mLast.op = "markActionMissed"
       \/ /\ mLast.op = "handleLogLine"
          /\ normalizeAbilityId(mLast.abilityId)
               = normalizeAbilityId(mOpener.actions[Len(mOpener.actions)].actionId)

-----------------------------------------------------------------------------
(* Properties of the bridge (Spec) *)

ActionIds(opener) == [i \in 1..Len(opener.actions) |-> opener.actions[i].id]

\* the line is an ability line of the tracked player
FromTrackedPlayer(st, line) ==
    /\ Len(line) >= 6
    /\ line[1] \in {"21", "22"}
    /\ ~IsNull(st.playerName)
    /\ line[4] = Val(st.playerName)

\* an opener and a progress that is not complete are active
Running(st) ==
    /\ ~IsNull(st.currentOpener)
    /\ ~IsNull(st.openerProgress)
    /\ ~Val(st.openerProgress).isComplete

\* field [4] of the line is, normalised, the ability of the action at currentIndex
CarriesExpected(st, line) ==
    LET o == Val(st.currentOpener)
        i == Val(st.openerProgress).currentIndex
    IN  /\ InRange(o, i)
        /\ normalizeAbilityId(line[5]) = normalizeAbilityId(o.actions[i + 1].actionId)

\* the store a LogLine step with this line leaves (the step changes nothing
\* else but the history variable)
AfterLogLine(line, t) ==
    dispatch("LogLine", registered("LogLine"), store, [line |-> line], t)

\* C4: the active progress has 0 <= currentIndex <= number of actions of the
\* active opener, as many completedActions as currentIndex, and completedActions
\* are the first currentIndex action ids of the active opener, in order.
C4_ProgressIsPrefix ==
    ~IsNull(store.openerProgress) =>
        /\ ~IsNull(store.currentOpener)
        /\ LET p == Val(store.openerProgress)
               o == Val(store.currentOpener)
           IN  /\ 0 <= p.currentIndex
               /\ p.currentIndex <= Len(o.actions)
               /\ Len(p.completedActions) = p.currentIndex
               /\ p.completedActions = SubSeq(ActionIds(o), 1, p.currentIndex)

\* the second opener of the catalog is active, after another one was, and has
\* been advanced to its end
C4_Witness ==
    /\ ~IsNull(store.currentOpener)
    /\ Val(store.currentOpener).id = "blm-standard-dt-71"
    /\ Val(store.openerProgress).currentIndex = Len(Val(store.currentOpener).actions)
    /\ lastEvent = "LogLine:advanced"

\* C7: a log line of the tracked player whose ability is not the one of the
\* expected step leaves the published progress the same in every field.
C7_MismatchKeepsProgress ==
    (Delivers("LogLine") /\ Running(store)) =>
        \A line \in LogLineInputs :
            (FromTrackedPlayer(store, line) /\ ~CarriesExpected(store, line))
              => \A t \in Times :
                    AfterLogLine(line, t).openerProgress = store.openerProgress

\* a mismatching line has just been handled in the middle of an opener
C7_Witness ==
    /\ lastEvent = "LogLine:mismatch"
    /\ Running(store)
    /\ Val(store.openerProgress).currentIndex > 0

\* C9: one log line leaves currentIndex the same or adds exactly 1 to it, and adds
\* 1 exactly when the line parses to an action of the tracked player, an opener
\* and a non-complete progress are active and the ability is the one of the
\* action at currentIndex.
C9_OneStepOnlyOnMatch ==
    Delivers("LogLine") =>
      \A line \in LogLineInputs, t \in Times :
          LET after == AfterLogLine(line, t).openerProgress
          IN  IF IsNull(store.openerProgress) THEN IsNull(after)
              ELSE /\ ~IsNull(after)
                   /\ LET i == Val(store.openerProgress).currentIndex
                          j == Val(after).currentIndex
                      IN  /\ j = i \/ j = i + 1
                          /\ (j = i + 1) <=>
                               (/\ FromTrackedPlayer(store, line)
                                /\ Running(store)
                                /\ CarriesExpected(store, line))

\* two lines have each advanced the progress by one step
C9_Witness ==
    /\ lastEvent = "LogLine:advanced"
    /\ ~IsNull(store.openerProgress)
    /\ Val(store.openerProgress).currentIndex = 2

\* C10: a job resolution that selects the opener that is already active leaves
\* the published progress unchanged.  (Only the resumption of fetchPlayerJob
\* takes a call off the pending ones.)
C10_SameOpenerKeepsProgress ==
    [][ (/\ pending' = pending - 1
         /\ ~IsNull(store.currentOpener)
         /\ ~IsNull(store'.playerJob)
         /\ getDefaultOpenerForJob(openers, Val(store'.playerJob)) = store.currentOpener)
        => store'.openerProgress = store.openerProgress ]_vars

\* the store a PartyChanged step with this roster leaves
AfterParty(data) ==
    dispatch("PartyChanged", registered("PartyChanged"), store, data, 0)

\* the store the resumption of a pending fetchPlayerJob leaves
AfterFetch(outcome) ==
    fetchPlayerJobResume(store, openers, callHandler(isAvailable, outcome))

\* the party roster lists the tracked player
ResolvesParty(st, data) ==
    /\ ~IsNull(st.playerName)
    /\ ~IsNull(findMember(data.party, Val(st.playerName)))

\* the host answered getCombatants with at least one combatant
ResolvesFetch(outcome) ==
    /\ outcome.kind = "resolve"
    /\ ~IsNull(outcome.value)
    /\ ~IsNull(Val(outcome.value).combatants)
    /\ Len(Val(Val(outcome.value).combatants)) > 0

\* the job name such an answer resolves to
ResolvedJob(outcome) == getJobName(Val(Val(outcome.value).combatants)[1].Job)

\* after a resolution the active opener is the default of the resolved job,
\* with a fresh progress if it is not the opener that was active before
SelectsDefault(before, after) ==
    /\ ~IsNull(after.playerJob)
    /\ after.currentOpener = getDefaultOpenerForJob(openers, Val(after.playerJob))
    /\ (after.currentOpener # before.currentOpener /\ ~IsNull(after.currentOpener))
         => after.openerProgress = Some(createProgress(Val(after.currentOpener)))

\* C11: whenever a party roster or a roster response resolves the player's job
\* to J, the active opener after it is getDefaultOpenerForJob(J), paired with a
\* fresh progress when it differs from the opener active before.
C11_ResolutionSelectsDefault ==
    /\ \A data \in PartyInputs :
          (Delivers("PartyChanged") /\ ResolvesParty(store, data))
            => SelectsDefault(store, AfterParty(data))
    /\ \A outcome \in HostOutcomes :
          (pending > 0 /\ isAvailable /\ ResolvesFetch(outcome))
            => SelectsDefault(store, AfterFetch(outcome))

\* C12: when the job resolves to a job without catalog entries,
\* getDefaultOpenerForJob returns none and no opener is active after the
\* resolution.
C12_NoEntriesLeavesUnset ==
    /\ \A data \in PartyInputs :
          (/\ Delivers("PartyChanged")
           /\ ResolvesParty(store, data)
           /\ IsNull(getDefaultOpenerForJob(openers, Val(AfterParty(data).playerJob))))
            => IsNull(AfterParty(data).currentOpener)
    /\ \A outcome \in HostOutcomes :
          (/\ pending > 0
           /\ isAvailable
           /\ ResolvesFetch(outcome)
           /\ IsNull(getDefaultOpenerForJob(openers, ResolvedJob(outcome))))
            => IsNull(AfterFetch(outcome).currentOpener)

\* an opener is active exactly when a progress is, and the progress lists
\* only action ids of that opener
PairConsistent(st) ==
    /\ IsNull(st.currentOpener) <=> IsNull(st.openerProgress)
    /\ ~IsNull(st.openerProgress) =>
         LET p == Val(st.openerProgress)
             o == Val(st.currentOpener)
         IN  \A i \in 1..Len(p.completedActions) :
                 \E j \in 1..Len(o.actions) : p.completedActions[i] = o.actions[j].id

FromOtherSource(st, line) ==
    /\ ~IsNull(parseLogLine(line))
    /\ \/ IsNull(st.playerName)
       \/ Val(parseLogLine(line)).sourceName # Val(st.playerName)

\* C14: a parsed action whose sourceName is not exactly the tracked player's
\* name, or one received while no name is tracked, is dropped: the published
\* state is the same after the event.
C14_OtherSourceDropped ==
    Delivers("LogLine") =>
        \A line \in LogLineInputs :
            FromOtherSource(store, line) =>
                \A t \in Times : AfterLogLine(line, t) = store

\* a line of another source was dropped in the middle of a running opener
C14_Witness ==
    /\ lastEvent = "LogLine:dropped"
    /\ Running(store)
    /\ Val(store.openerProgress).currentIndex > 0

\* C15: a roster response does not discard progress advanced by a log line
\* that was processed while the response was pending.
C15_ResponseKeepsProgress ==
    [][ (/\ lastEvent = "LogLine:advanced"
         /\ pending > 0
         /\ pending' = pending - 1)
        => store'.openerProgress = store.openerProgress ]_vars

\* what getCombatants gives when it fails, returns nothing, or returns a
\* response without combatants
FailedOutcomes ==
    { Rejected,
      Resolved(NULL),
      Resolved(Some([combatants |-> NULL])),
      Resolved(Some([combatants |-> Some(<<>>)])) }

\* C17: a roster fetch that rejects, resolves to nothing or resolves to an
\* empty combatant list resolves callHandler to a value (null for a rejection)
\* and leaves the published job, opener and progress unchanged.
C17_FailedFetchChangesNothing ==
    /\ callHandler(isAvailable, Rejected) = NULL
    /\ pending > 0 =>
          \A outcome \in FailedOutcomes :
              LET after == AfterFetch(outcome)
              IN  /\ after.playerJob = store.playerJob
                  /\ after.currentOpener = store.currentOpener
                  /\ after.openerProgress = store.openerProgress

\* a response has just been handled and left an advanced progress of the
\* resolved job's opener in place, which no response with a combatant does
C17_Witness ==
    /\ lastEvent = "FetchResponse"
    /\ store.playerJob = Some(WAR)
    /\ ~IsNull(store.currentOpener)
    /\ Val(store.currentOpener).job = WAR
    /\ Val(store.openerProgress).currentIndex > 0

-----------------------------------------------------------------------------
(* An opener run: the effect has run, the player is tracked, a roster      *)
(* response has selected an opener of the catalog, no fetch is pending.    *)
(* From there the host delivers log lines, combat data and party changes   *)
(* (the events that start no job resolution), and every ability the opener *)
(* expects next is eventually delivered.                                   *)

RosterOf(name, job) == Some([combatants |-> Some(<<[Name |-> name, Job |-> job]>>)])

InitRun ==
    /\ openers = loadOpeners(allOpenersImported)
    /\ isAvailable = TRUE
    /\ LET reg == effectRegister(TRUE, [listeners |-> {}, host |-> {}], 1)
       IN  /\ listeners = reg.listeners
           /\ hostListeners = reg.host
    /\ hostStarted = startEvents(TRUE, FALSE)
    /\ \E job \in {21, 25} :
          store = fetchPlayerJobResume(setPlayer(initialState, "id-alice", "Alice"),
                                       openers, RosterOf("Alice", job))
    /\ pending = 0
    /\ mounts = 1
    /\ mounted = TRUE
    /\ lastEvent = "FetchResponse"
    /\ MatcherIdle

\* a line of the tracked player that carries the ability expected next
DeliverExpected ==
    \E line \in LogLineInputs, t \in Times :
        /\ FromTrackedPlayer(store, line)
        /\ Running(store)
        /\ CarriesExpected(store, line)
        /\ LogLine([line |-> line], t)

NextRun ==
    \/ \E line \in LogLineInputs, t \in Times : LogLine([line |-> line], t)
    \/ \E data \in CombatInputs : CombatData(data)
    \/ \E data \in PartyInputs : PartyChanged(data)

SpecRun == InitRun /\ [][NextRun]_vars /\ WF_vars(DeliverExpected)

\* the active progress is complete and lists every action id of the opener
RunComplete ==
    /\ ~IsNull(store.openerProgress)
    /\ Val(store.openerProgress).isComplete
    /\ Val(store.openerProgress).currentIndex = Len(Val(store.currentOpener).actions)
    /\ Val(store.openerProgress).completedActions = ActionIds(Val(store.currentOpener))

\* C8: from a fresh progress, each line of the tracked player that carries the
\* ability expected at index k-1 leaves currentIndex = k and the first k action
\* ids completed, the last one leaves the progress complete with every action
\* id in order, and under fair delivery of the expected abilities the opener
\* eventually completes.
C8_InOrderCompletes ==
    /\ [][ \A line \in LogLineInputs, t \in Times :
             (/\ FromTrackedPlayer(store, line)
              /\ Running(store)
              /\ CarriesExpected(store, line)
              /\ LogLine([line |-> line], t))
             => LET o == Val(store.currentOpener)
                    k == Val(store.openerProgress).currentIndex + 1
                    q == Val(store'.openerProgress)
                IN  /\ q.currentIndex = k
                    /\ q.completedActions = SubSeq(ActionIds(o), 1, k)
                    /\ q.isComplete <=> (k = Len(o.actions)) ]_vars
    /\ [](Val(store.openerProgress).isComplete => RunComplete)
    /\ <>RunComplete

\* the last expected line has completed the opener
C8_Witness ==
    /\ RunComplete
    /\ lastEvent = "LogLine:advanced"

-----------------------------------------------------------------------------
(* A fetch that never responds: a warrior's opener run in which a          *)
(* fetchPlayerJob call is still awaiting its response.  The host delivers  *)
(* events of the five types; no response ever arrives.                     *)

InitAwaiting ==
    /\ openers = loadOpeners(allOpenersImported)
    /\ isAvailable = TRUE
    /\ LET reg == effectRegister(TRUE, [listeners |-> {}, host |-> {}], 1)
       IN  /\ listeners = reg.listeners
           /\ hostListeners = reg.host
    /\ hostStarted = startEvents(TRUE, FALSE)
    /\ store = fetchPlayerJobResume(setPlayer(initialState, "id-alice", "Alice"),
                                    openers, RosterOf("Alice", 21))
    /\ pending = 1
    /\ mounts = 1
    /\ mounted = TRUE
    /\ lastEvent = "FetchResponse"
    /\ MatcherIdle

NextAwaiting ==
    \/ \E line \in LogLineInputs, t \in Times : LogLine([line |-> line], t)
    \/ \E data \in CombatInputs : CombatData(data)
    \/ \E data \in PartyInputs : PartyChanged(data)
    \/ \E data \in ZoneInputs : ChangeZone(data)
    \/ \E data \in PlayerInputs : ChangePrimaryPlayer(data)

SpecAwaiting == InitAwaiting /\ [][NextAwaiting]_vars

-----------------------------------------------------------------------------
(* A client of the OverlayPluginService: it registers and removes          *)
(* callbacks one by one or as the OverlayListener effect does, starts the  *)
(* events, calls a handler and calls cleanup, in any order, with the host  *)
(* present or not.  A callback is registered once per event type, as the   *)
(* effect does.                                                            *)

ClientCallbacks == {1, 2}

Registry == [listeners |-> listeners, host |-> hostListeners]

\* history value of a teardown: whether it removed anything
Removed(name, after) ==
    IF after = Registry THEN name \o ":none" ELSE name \o ":some"

SvcAdd(eventType, callback) ==
    /\ <<eventType, callback>> \notin listeners
    /\ LET reg == addEventListener(isAvailable, Registry, eventType, callback)
       IN  /\ listeners' = reg.listeners
           /\ hostListeners' = reg.host
    /\ lastEvent' = "addEventListener"
    /\ UNCHANGED <<openers, isAvailable, hostStarted, store, pending, mounts,
                   mounted, matcherVars>>

SvcRemove(eventType, callback) ==
    /\ LET reg == removeEventListener(isAvailable, Registry, eventType, callback)
       IN  /\ listeners' = reg.listeners
           /\ hostListeners' = reg.host
           /\ lastEvent' = Removed("removeEventListener", reg)
    /\ UNCHANGED <<openers, isAvailable, hostStarted, store, pending, mounts,
                   mounted, matcherVars>>

SvcStart ==
    /\ hostStarted' = startEvents(isAvailable, hostStarted)
    /\ lastEvent' = "startEvents"
    /\ UNCHANGED <<openers, isAvailable, listeners, hostListeners, store, pending,
                   mounts, mounted, matcherVars>>

\* the host is called only when it is there
SvcCall(outcome) ==
    /\ isAvailable \/ outcome = Rejected
    /\ lastEvent' = IF IsNull(callHandler(isAvailable, outcome))
                    THEN "callHandler:null" ELSE "callHandler:value"
    /\ UNCHANGED <<openers, isAvailable, listeners, hostListeners, hostStarted,
                   store, pending, mounts, mounted, matcherVars>>

\* the cleanup function of the effect run that created these callbacks
SvcEffectCleanup(callback) ==
    /\ LET reg == effectCleanup(isAvailable, Registry, callback)
       IN  /\ listeners' = reg.listeners
           /\ hostListeners' = reg.host
           /\ lastEvent' = Removed("effectCleanup", reg)
    /\ UNCHANGED <<openers, isAvailable, hostStarted, store, pending, mounts,
                   mounted, matcherVars>>

SvcCleanup ==
    /\ LET reg == cleanup(Registry)
       IN  /\ listeners' = reg.listeners
           /\ hostListeners' = reg.host
           /\ lastEvent' = Removed("cleanup", reg)
    /\ UNCHANGED <<openers, isAvailable, hostStarted, store, pending, mounts,
                   mounted, matcherVars>>

NextService ==
    \/ \E e \in EventTypes, cb \in ClientCallbacks : SvcAdd(e, cb)
    \/ \E e \in EventTypes, cb \in ClientCallbacks : SvcRemove(e, cb)
    \/ SvcStart
    \/ \E outcome \in HostOutcomes : SvcCall(outcome)
    \/ \E cb \in ClientCallbacks : SvcEffectCleanup(cb)
    \/ SvcCleanup

SpecService == Init /\ [][NextService]_vars

\* C18: with the host unavailable, addEventListener, removeEventListener and
\* startEvents change neither the service's Map nor anything of the host, and
\* callHandler resolves to null.
C18_UnavailableIsNoOp ==
    [][ ~isAvailable =>
          /\ listeners' = listeners
          /\ hostListeners' = hostListeners
          /\ hostStarted' = hostStarted
          /\ listeners' = {} /\ hostListeners' = {} /\ ~hostStarted'
          /\ lastEvent' # "callHandler:value" ]_vars

\* a handler was called without a host
C18_Witness ==
    /\ ~isAvailable
    /\ lastEvent = "callHandler:null"
    /\ listeners = {}

\* no callback of this effect run is tracked or registered with the host
Gone(reg, callback) ==
    \A e \in EventTypes : <<e, callback>> \notin (reg.listeners \cup reg.host)

\* C19: after the effect's cleanup none of its callbacks is tracked by the
\* service or registered with the host, after cleanup() none at all; a second
\* teardown changes nothing; both are safe when nothing was ever registered.
C19_TeardownTotalIdempotent ==
    /\ \A cb \in ClientCallbacks :
          LET after == effectCleanup(isAvailable, Registry, cb)
          IN  /\ Gone(after, cb)
              /\ effectCleanup(isAvailable, after, cb) = after
    /\ LET after == cleanup(Registry)
       IN  /\ after.listeners = {}
           /\ after.host = {}
           /\ cleanup(after) = after
    /\ lastEvent = "cleanup:some" => (listeners = {} /\ hostListeners = {})
    /\ Registry = [listeners |-> {}, host |-> {}] =>
          /\ cleanup(Registry) = Registry
          /\ \A cb \in ClientCallbacks :
                effectCleanup(isAvailable, Registry, cb) = Registry

\* cleanup() has just removed callbacks from a started host
C19_Witness ==
    /\ isAvailable
    /\ hostStarted
    /\ lastEvent = "cleanup:some"
    /\ listeners = {}
    /\ hostListeners = {}

-----------------------------------------------------------------------------
(* A client of the two normalizeAbilityId methods: it starts with any      *)
(* string of at most MaxIdLen characters over digits, a hexadecimal letter *)
(* in lower case and the letter x in both cases, and hands the string it   *)
(* holds to one of the methods, keeping the result.                        *)

IdAlphabet == {"0", "2", "e", "x", "X"}

IdInputs == UNION { [1..n -> IdAlphabet] : n \in 0..MaxIdLen }

InitNormalize ==
    /\ BridgeIdle
    /\ mOpener = NULL
    /\ mProgress = NULL
    /\ \E id \in IdInputs : mLast = Call("input", NULL, id, id)

\* openerService's private method, as matchesExpectedAction calls it
NormalizeOpener ==
    /\ mLast' = Call("OpenerService.normalizeAbilityId", NULL, mLast.result,
                     normalizeAbilityId(mLast.result))
    /\ UNCHANGED <<openers, bridgeVars, mOpener, mProgress>>

\* actionDetectionService's private method, as parseLogLine calls it
NormalizeParser ==
    /\ mLast' = Call("ActionDetectionService.normalizeAbilityId", NULL, mLast.result,
                     ActionDetection_normalizeAbilityId(mLast.result))
    /\ UNCHANGED <<openers, bridgeVars, mOpener, mProgress>>

NextNormalize == NormalizeOpener \/ NormalizeParser

SpecNormalize == InitNormalize /\ [][NextNormalize]_vars

\* C20: normalizeAbilityId is idempotent for every input string: whatever
\* either method returns, both methods return it unchanged.
C20_NormalizeIdempotent ==
    mLast.op # "input" =>
        /\ normalizeAbilityId(mLast.result) = mLast.result
        /\ ActionDetection_normalizeAbilityId(mLast.result) = mLast.result

-----------------------------------------------------------------------------
(* More properties of the matcher (SpecMatcher) *)

\* C24: startTime is unset in every progress with currentIndex = 0, set once
\* the first advance has succeeded, and keeps its value through every later
\* advanceProgress, markActionMissed and log line.
C24_StartTimeSetOnce ==
    /\ []((mProgress.currentIndex = 0) <=> IsNull(mProgress.startTime))
    /\ [][ ~IsNull(mProgress.startTime)
             => mProgress'.startTime = mProgress.startTime ]_vars

\* a later advance has left the first stamp in place
C24_Witness ==
    /\ mLast.op = "advanceProgress"
    /\ mLast.before.currentIndex > 0
    /\ mProgress.currentIndex = mLast.before.currentIndex + 1
    /\ mProgress.startTime = Some(1)
    /\ Len(mProgress.missedActions) > 0

\* C25: markActionMissed on a progress that is not complete appends the id of
\* the action at currentIndex to missedActions and leaves currentIndex,
\* completedActions, isComplete and startTime as they were.
C25_MarkMissedFrame ==
    (mLast.op = "markActionMissed" /\ ~mLast.before.isComplete) =>
        LET p == mLast.before
        IN  /\ InRange(mOpener, p.currentIndex)
            /\ mProgress.missedActions
                 = Append(p.missedActions, mOpener.actions[p.currentIndex + 1].id)
            /\ mProgress.currentIndex = p.currentIndex
            /\ mProgress.completedActions = p.completedActions
            /\ mProgress.isComplete = p.isComplete
            /\ mProgress.startTime = p.startTime

\* an action in the middle of a started opener was marked missed a second time
C25_Witness ==
    /\ mLast.op = "markActionMissed"
    /\ mLast.before.currentIndex > 0
    /\ ~mLast.before.isComplete
    /\ Len(mProgress.missedActions) = 2
    /\ ~IsNull(mProgress.startTime)

\* C26: createProgress returns the canonical initial state for every opener:
\* currentIndex 0, no completed and no missed actions, not complete, startTime
\* unset.
C26_CreateIsCanonical ==
    mLast.op = "createProgress" =>
        mProgress = [currentIndex     |-> 0,
                     completedActions |-> <<>>,
                     missedActions    |-> <<>>,
                     isComplete       |-> FALSE,
                     startTime        |-> NULL]

\* a progress was created for an opener that is not one of the catalog
C26_Witness ==
    /\ mLast.op = "createProgress"
    /\ mOpener.id = "generated"
    /\ Len(mOpener.actions) >= 2
    /\ mOpener.actions[1].actionId # mOpener.actions[2].actionId

-----------------------------------------------------------------------------
(* A client of the ActionDetectionService: it holds a log line, an array   *)
(* of 0 to MaxFields fields, and hands it to parseLogLine.  Lines of six   *)
(* fields with a recognised type carry any string of IdInputs in field     *)
(* [4]; lines of every length carry every type code of ParserTypeInputs,   *)
(* with the other fields filled or empty.                                  *)

ParserTypeInputs == {"21", "22", "00", "20", "23", "021", ""}

\* field i (1-based) of a line of the log, ability lines' layout
FieldAt(i, type, id, blank) ==
    CASE i = 1 -> type
      [] i = 2 -> IF blank THEN "" ELSE "2024-01-01T00:00:00"
      [] i = 3 -> IF blank THEN "" ELSE "1000"
      [] i = 4 -> IF blank THEN "" ELSE "Alice"
      [] i = 5 -> id
      [] i = 6 -> IF blank THEN "" ELSE "Tomahawk"
      [] i = 7 -> IF blank THEN "" ELSE "4000"
      [] i = 8 -> IF blank THEN "" ELSE "Dummy"
      [] OTHER -> "0"

LineOf(n, type, id, blank) == [i \in 1..n |-> FieldAt(i, type, id, blank)]

ParserLineInputs ==
    {LineOf(6, type, id, FALSE) : type \in {"21", "22"}, id \in IdInputs}
      \cup {LineOf(n, type, id, blank) :
              n \in 0..MaxFields, type \in ParserTypeInputs,
              id \in AbilityIdInputs, blank \in BOOLEAN}

ParseCall(op, line, result) == [op |-> op, line |-> line, result |-> result]

InitParser ==
    /\ BridgeIdle
    /\ mOpener = NULL
    /\ mProgress = NULL
    /\ \E line \in ParserLineInputs : mLast = ParseCall("input", line, NULL)

ParseLine ==
    /\ mLast' = ParseCall("parseLogLine", mLast.line, parseLogLine(mLast.line))
    /\ UNCHANGED <<openers, bridgeVars, mOpener, mProgress>>

NextParser == ParseLine

SpecParser == InitParser /\ [][NextParser]_vars

\* the line has at least 6 fields and one of the two type codes in field [0]
Accepted(line) == Len(line) >= 6 /\ line[1] \in {"21", "22"}

StartsWithMarker(id) == Len(id) >= 2 /\ id[1] = "0" /\ id[2] \in {"x", "X"}

HasLowerCase(id) ==
    \E i \in 1..Len(id), k \in 1..Len(LowerLetters) : id[i] = LowerLetters[k]

\* C21: for every line with at least 6 fields and a recognised type code, the
\* abilityId parseLogLine returns is upper case, does not start with a 0x/0X
\* marker and has at least 4 characters, whatever field [4] holds.
C21_AbilityIdCanonical ==
    (mLast.op = "parseLogLine" /\ Accepted(mLast.line)) =>
        /\ ~IsNull(mLast.result)
        /\ LET id == Val(mLast.result).abilityId
           IN  /\ ~HasLowerCase(id)
               /\ ~StartsWithMarker(id)
               /\ Len(id) >= 4

\* C22: parseLogLine returns an action exactly when the line has at least 6
\* fields and field [0] is "21" or "22"; for every other line it returns null.
C22_ParsesIffAccepted ==
    mLast.op = "parseLogLine" =>
        (~IsNull(mLast.result) <=> Accepted(mLast.line))

\* a line that is long enough was refused for its type code
C22_Witness ==
    /\ mLast.op = "parseLogLine"
    /\ IsNull(mLast.result)
    /\ Len(mLast.line) = 8
    /\ mLast.line[1] = "23"

\* C23: for an accepted line, timestamp, sourceId, sourceName and abilityName
\* are fields [1], [2], [3] and [5], abilityId is field [4] normalised, and
\* targetId and targetName are fields [6] and [7] when the line has them and
\* are unset otherwise.
C23_FieldMapping ==
    (mLast.op = "parseLogLine" /\ Accepted(mLast.line)) =>
        LET line == mLast.line
            a    == Val(mLast.result)
        IN  /\ ~IsNull(mLast.result)
            /\ a.timestamp = line[2]
            /\ a.sourceId = line[3]
            /\ a.sourceName = line[4]
            /\ a.abilityId = ActionDetection_normalizeAbilityId(line[5])
            /\ a.abilityName = line[6]
            /\ a.targetId = IF Len(line) >= 7 THEN Some(line[7]) ELSE NULL
            /\ a.targetName = IF Len(line) >= 8 THEN Some(line[8]) ELSE NULL

\* a line of seven fields was parsed: it has a target id and no target name
C23_Witness ==
    /\ mLast.op = "parseLogLine"
    /\ Len(mLast.line) = 7
    /\ ~IsNull(mLast.result)
    /\ Val(mLast.result).targetId = Some("4000")
    /\ IsNull(Val(mLast.result).targetName)
    /\ Val(mLast.result).abilityId # mLast.line[5]

-----------------------------------------------------------------------------
(* A client of the OpenerService catalog.  The service is constructed over *)
(* a list of opener definitions -- the two imported ones and a second      *)
(* definition for WAR, in any number and order -- and the client then      *)
(* looks up jobs and opener ids.  mLast keeps the list that was loaded,    *)
(* the last call, its argument, and what it returned.                      *)

warAlternativeDt71 ==
    [id |-> "war-alternative-dt-71", job |-> WAR,
     actions |-> << Action("heavy-swing", <<"0","0","0","1","F","5">>),
                    Action("maim",        <<"0","0","0","2","5">>) >>]

CatalogDefs == {warStandardDt71, blmStandardDt71, warAlternativeDt71}

\* the lists of distinct definitions, allOpenersImported among them
CatalogInputs ==
    {defs \in UNION {[1..n -> CatalogDefs] : n \in 0..Cardinality(CatalogDefs)} :
        \A i, k \in 1..Len(defs) : defs[i] = defs[k] => i = k}

JobInputs ==
    {WAR, <<"w","a","r">>, <<"W","a","r">>, BLM, <<"b","l","m">>, PLD,
     <<"W","A">>, <<>>}

OpenerIdInputs ==
    {"war-standard-dt-71", "blm-standard-dt-71", "war-alternative-dt-71",
     "pld-standard-dt-71", ""}

CatalogCall(op, loaded, arg, result) ==
    [op |-> op, loaded |-> loaded, arg |-> arg, result |-> result]

InitCatalog ==
    /\ \E defs \in CatalogInputs :
          /\ openers = loadOpeners(defs)
          /\ mLast = CatalogCall("loadOpeners", defs, NULL, NULL)
    /\ isAvailable = FALSE
    /\ listeners = {}
    /\ hostListeners = {}
    /\ hostStarted = FALSE
    /\ store = initialState
    /\ pending = 0
    /\ mounts = 0
    /\ mounted = FALSE
    /\ lastEvent = "init"
    /\ mOpener = NULL
    /\ mProgress = NULL

CatOpenersForJob ==
    \E job \in JobInputs :
        /\ mLast' = CatalogCall("getOpenersForJob", mLast.loaded, job,
                                getOpenersForJob(openers, job))
        /\ UNCHANGED <<openers, bridgeVars, mOpener, mProgress>>

CatDefaultOpenerForJob ==
    \E job \in JobInputs :
        /\ mLast' = CatalogCall("getDefaultOpenerForJob", mLast.loaded, job,
                                getDefaultOpenerForJob(openers, job))
        /\ UNCHANGED <<openers, bridgeVars, mOpener, mProgress>>

CatOpenerById ==
    \E openerId \in OpenerIdInputs :
        /\ mLast' = CatalogCall("getOpenerById", mLast.loaded, openerId,
                                getOpenerById(openers, openerId))
        /\ UNCHANGED <<openers, bridgeVars, mOpener, mProgress>>

NextCatalog ==
    \/ CatOpenersForJob
    \/ CatDefaultOpenerForJob
    \/ CatOpenerById

SpecCatalog == InitCatalog /\ [][NextCatalog]_vars

\* c and d are the same character or the two cases of one letter
SameLetter(c, d) ==
    \/ c = d
    \/ \E k \in 1..Len(LowerLetters) :
          {c, d} = {LowerLetters[k], UpperLetters[k]}

CaseVariant(a, b) ==
    /\ Len(a) = Len(b)
    /\ \A i \in 1..Len(a) : SameLetter(a[i], b[i])

\* the loaded definitions whose job is a case variant of this one, in load order
LoadedForJob(loaded, job) ==
    SelectSeq(loaded, LAMBDA o : CaseVariant(o.job, job))

\* C27: getOpenersForJob compares job codes without regard to case: every
\* case variant of the job that was asked for gets the same list.
C27_JobCaseInsensitive ==
    mLast.op = "getOpenersForJob" =>
        \A job \in JobInputs :
            CaseVariant(mLast.arg, job) =>
                getOpenersForJob(openers, job) = mLast.result

\* the job was asked for in lower case and the catalog has two openers for it
C27_Witness ==
    /\ mLast.op = "getOpenersForJob"
    /\ mLast.arg = <<"w","a","r">>
    /\ Len(mLast.result) = 2

\* C28: getDefaultOpenerForJob(job) is the first element of
\* getOpenersForJob(job), which is in the order the definitions were loaded;
\* it is null exactly when that list is empty; a call never changes the
\* catalog, and a repeated call returns what the call before it returned.
C28_DefaultIsFirstLoaded ==
    /\ [](mLast.op = "getDefaultOpenerForJob" =>
            LET list == getOpenersForJob(openers, mLast.arg)
            IN  /\ list = LoadedForJob(mLast.loaded, mLast.arg)
                /\ IsNull(mLast.result) <=> list = <<>>
                /\ list # <<>> => mLast.result = Some(list[1]))
    /\ [][ /\ openers' = openers
           /\ ( /\ mLast.op = "getDefaultOpenerForJob"
                /\ mLast'.op = "getDefaultOpenerForJob"
                /\ mLast'.arg = mLast.arg )
              => mLast'.result = mLast.result ]_vars

\* the alternative definition was loaded before the standard one and is the
\* default for the job
C28_Witness ==
    /\ mLast.op = "getDefaultOpenerForJob"
    /\ Len(getOpenersForJob(openers, mLast.arg)) = 2
    /\ mLast.loaded[1] = blmStandardDt71
    /\ mLast.result = Some(warAlternativeDt71)

\* C29: a miss in the catalog is a value: getOpenersForJob of a job no loaded
\* opener has returns the empty list, getOpenerById of an id no loaded opener
\* has returns null, and getOpenerById of an id a loaded opener has returns
\* an opener with that id.
C29_MissesAreValues ==
    /\ (mLast.op = "getOpenersForJob"
          /\ LoadedForJob(mLast.loaded, mLast.arg) = <<>>)
         => mLast.result = <<>>
    /\ mLast.op = "getOpenerById" =>
         IF \E i \in 1..Len(mLast.loaded) : mLast.loaded[i].id = mLast.arg
         THEN ~IsNull(mLast.result) /\ Val(mLast.result).id = mLast.arg
         ELSE IsNull(mLast.result)

\* an opener of the second job of the catalog was found by its id
C29_Witness ==
    /\ mLast.op = "getOpenerById"
    /\ Len(openers) = 2
    /\ ~IsNull(mLast.result)
    /\ Val(mLast.result).job = openers[2][1]

-----------------------------------------------------------------------------
(* More properties of the bridge (Spec) *)

\* C30: a combat event changes only the published inCombat flag and the
\* encounter title: the active opener, the progress, the tracked player, the
\* job and the zone are the same before and after it, and no roster request
\* is issued.
C30_CombatOnlyCombatState ==
    [][ lastEvent' = "CombatData" =>
          /\ store' = [store EXCEPT !.inCombat = store'.inCombat,
                                    !.encounterTitle = store'.encounterTitle]
          /\ pending' = pending ]_vars

\* combat ended while an opener was under way, and the progress is still there
C30_Witness ==
    /\ lastEvent = "CombatData"
    /\ ~store.inCombat
    /\ Running(store)
    /\ Val(store.openerProgress).currentIndex > 0
    /\ ~IsNull(store.currentZone)

-----------------------------------------------------------------------------
(* Repeated and differently padded abilities (SpecMatcher) *)

\* the action before the one at 0-based index i carries the same ability
RepeatsPrevious(opener, i) ==
    /\ i >= 1
    /\ InRange(opener, i)
    /\ normalizeAbilityId(opener.actions[i + 1].actionId)
         = normalizeAbilityId(opener.actions[i].actionId)

\* C36: when the log line that has just been matched is delivered once more,
\* directly after, the second delivery advances the progress by one more step
\* exactly when the action at the new currentIndex has the same normalised
\* ability id; otherwise the progress stays as it is.  Nothing is added to
\* missedActions either way.
C36_RepeatedLine ==
    [][ ( /\ mLast.op = "handleLogLine"
          /\ mProgress.currentIndex = mLast.before.currentIndex + 1
          /\ mLast'.op = "handleLogLine"
          /\ mLast'.abilityId = mLast.abilityId )
        => /\ IF RepeatsPrevious(mOpener, mProgress.currentIndex)
              THEN /\ mProgress'.currentIndex = mProgress.currentIndex + 1
                   /\ mProgress'.completedActions
                        = Append(mProgress.completedActions,
                                 mOpener.actions[mProgress.currentIndex + 1].id)
              ELSE mProgress' = mProgress
           /\ mProgress'.missedActions = mProgress.missedActions ]_vars

\* the same line was handled twice in a row and advanced the progress twice
C36_Witness ==
    /\ mLast.op = "handleLogLine"
    /\ mOpener = blmStandardDt71
    /\ mLast.abilityId = <<"0","0","0","D","D","1">>
    /\ mLast.before.currentIndex = 2
    /\ mProgress.currentIndex = 3

HexDigits == <<"0","1","2","3","4","5","6","7","8","9","A","B","C","D","E","F">>

IsHexDigit(c) == \E k \in 1..Len(HexDigits) : HexDigits[k] = c

DigitValue(c) == (CHOOSE k \in 1..Len(HexDigits) : HexDigits[k] = c) - 1

\* the number a string of upper-case hexadecimal digits denotes
RECURSIVE HexValue(_)
HexValue(s) ==
    IF s = <<>> THEN 0
    ELSE HexValue(SubSeq(s, 1, Len(s) - 1)) * Len(HexDigits) + DigitValue(s[Len(s)])

\* the digits of an id: no marker, upper case, not padded
Digits(id) == toUpperCase(replace0x(id))

\* two ids of the same number whose digits, padded to 4, differ in length
SameNumberOtherWidth(a, b) ==
    /\ \A i \in 1..Len(Digits(a)) : IsHexDigit(Digits(a)[i])
    /\ \A i \in 1..Len(Digits(b)) : IsHexDigit(Digits(b)[i])
    /\ HexValue(Digits(a)) = HexValue(Digits(b))
    /\ Len(padStart(Digits(a), 4)) # Len(padStart(Digits(b), 4))

\* C38: ids are matched as normalised strings, not as numbers: a detected id
\* that denotes the number of the expected actionId but differs from it in
\* leading zeros beyond 4 characters does not match, and a log line carrying
\* it does not advance the progress.
C38_MatchIsStringEquality ==
    ( /\ mLast.op \in {"matchesExpectedAction", "handleLogLine"}
      /\ InRange(mOpener, mLast.before.currentIndex)
      /\ SameNumberOtherWidth(
           mLast.abilityId,
           mOpener.actions[mLast.before.currentIndex + 1].actionId) )
    => IF mLast.op = "matchesExpectedAction"
       THEN ~mLast.result
       ELSE mProgress = mLast.before

\* a line with '2E6' was handled while '0002E6' was expected at the second step
C38_Witness ==
    /\ mLast.op = "handleLogLine"
    /\ mLast.abilityId = <<"2","E","6">>
    /\ mLast.before.currentIndex = 1
    /\ Len(mOpener.actions) >= 2
    /\ mOpener.actions[2].actionId = <<"0","0","0","2","E","6">>
    /\ mProgress = mLast.before

-----------------------------------------------------------------------------
(* Atomicity, lifecycle and job resolution of the bridge (Spec) *)

LogOutcomes ==
    {"LogLine:ignored", "LogLine:dropped", "LogLine:idle", "LogLine:complete",
     "LogLine:advanced", "LogLine:mismatch"}

\* C31: the handling of one log line is one step on the store: the pair it
\* matched against is the pair the step before left, the advanced progress is
\* published over exactly that pair, and nothing else of the store changes,
\* also while roster responses are pending; a line that does not advance
\* leaves the store as it is.  So log lines take effect in delivery order.
C31_LogLineAtomic ==
    [][ lastEvent' \in LogOutcomes =>
          IF lastEvent' = "LogLine:advanced"
          THEN /\ Running(store)
               /\ \E t \in Times :
                     store' = setOpenerProgress(store,
                                Some(advanceProgress(Val(store.currentOpener),
                                                     Val(store.openerProgress), t)))
          ELSE store' = store ]_vars

\* a line advanced the progress a second time while a roster response was pending
C31_Witness ==
    /\ lastEvent = "LogLine:advanced"
    /\ pending > 0
    /\ Val(store.openerProgress).currentIndex = 2

\* C33: whenever an opener is active, its job code is the published player job.
C33_OpenerJobIsPlayerJob ==
    ~IsNull(store.currentOpener) =>
        store.playerJob = Some(Val(store.currentOpener).job)

\* C34: once the effect's cleanup has run, the published player job, opener
\* and progress do not change any more, whatever arrives afterwards.
C34_QuietAfterTeardown ==
    [][ (mounts > 0 /\ ~mounted /\ ~mounted') =>
          /\ store'.playerJob = store.playerJob
          /\ store'.currentOpener = store.currentOpener
          /\ store'.openerProgress = store.openerProgress ]_vars

\* every event type has one callback with the host and one with the service
OneHandlerEach ==
    \A e \in EventTypes :
        /\ registered(e) = 1
        /\ Cardinality({l \in listeners : l[1] = e}) = 1

\* C35: with the host available, whenever the effect is live -- after the
\* first mount and after a mount that follows a teardown -- exactly one
\* handler per event type is registered with the host and tracked by the
\* service, and none is once it is torn down; so a delivered log line moves
\* currentIndex by at most one.
C35_OneHandlerAfterRemount ==
    /\ []((isAvailable /\ mounted) => OneHandlerEach)
    /\ [](~mounted => (listeners = {} /\ hostListeners = {}))
    /\ [][ (lastEvent' \in LogOutcomes /\ ~IsNull(store.openerProgress)) =>
             /\ ~IsNull(store'.openerProgress)
             /\ Val(store'.openerProgress).currentIndex
                  \in { Val(store.openerProgress).currentIndex,
                        Val(store.openerProgress).currentIndex + 1 } ]_vars

\* after mount, teardown and mount, the first of two equal abilities of the
\* opener was matched by one line
C35_Witness ==
    /\ mounts = 2
    /\ mounted
    /\ isAvailable
    /\ lastEvent = "LogLine:advanced"
    /\ Val(store.currentOpener).id = "blm-standard-dt-71"
    /\ Val(store.openerProgress).currentIndex = 2

\* C37: the published progress never has a missed action.
C37_NoMissedPublished ==
    ~IsNull(store.openerProgress) => Val(store.openerProgress).missedActions = <<>>

\* a line of the tracked player has just failed to match in the middle of an opener
C37_Witness ==
    /\ lastEvent = "LogLine:mismatch"
    /\ Val(store.openerProgress).currentIndex > 0
    /\ Val(store.openerProgress).missedActions = <<>>

\* the roster of this answer has an entry with this name
Lists(outcome, name) ==
    \E i \in 1..Len(Val(Val(outcome.value).combatants)) :
        Val(Val(outcome.value).combatants)[i].Name = name

EntryOf(outcome, name) ==
    LET roster == Val(Val(outcome.value).combatants)
    IN  roster[CHOOSE i \in 1..Len(roster) : roster[i].Name = name]

\* C40: after a roster response that lists the tracked player, the published
\* player job is the job of the entry with the tracked player's name, wherever
\* the entry stands in the roster.
C40_JobOfTrackedEntry ==
    (pending > 0 /\ isAvailable /\ ~IsNull(store.playerName)) =>
        \A outcome \in HostOutcomes :
            (ResolvesFetch(outcome) /\ Lists(outcome, Val(store.playerName))) =>
                AfterFetch(outcome).playerJob
                  = Some(getJobName(EntryOf(outcome, Val(store.playerName)).Job))

-----------------------------------------------------------------------------
(* The OverlayListener effect, statement by statement.  The body of the    *)
(* effect is synchronous: the host delivers nothing while it runs.  mLast  *)
(* is the position in the body and what the run has called so far.  Once   *)
(* the body has ended, player changes and roster responses arrive, and     *)
(* the cleanup may run.                                                    *)

Stmt(call, eventType) == [call |-> call, eventType |-> eventType]

\* variant: events are started before the listeners are registered
effectBody_startFirst ==
    << Stmt("startEvents", ""),
       Stmt("addEventListener", "ChangePrimaryPlayer"),
       Stmt("addEventListener", "PartyChanged"),
       Stmt("addEventListener", "ChangeZone"),
       Stmt("addEventListener", "CombatData"),
       Stmt("addEventListener", "LogLine"),
       Stmt("fetchPlayerJob", "") >>

\* the calls of the effect's body, in the order of the source
effectBody ==
    << Stmt("addEventListener", "ChangePrimaryPlayer"),
       Stmt("addEventListener", "PartyChanged"),
       Stmt("addEventListener", "ChangeZone"),
       Stmt("addEventListener", "CombatData"),
       Stmt("addEventListener", "LogLine"),
       Stmt("startEvents", ""),
       Stmt("fetchPlayerJob", "") >>

EffectRun(pc, added, started, fetched) ==
    [pc |-> pc, added |-> added, started |-> started, fetched |-> fetched]

\* no effect body is running
EffectIdle == mLast.pc = Len(effectBody)

InitEffect ==
    /\ openers = loadOpeners(allOpenersImported)
    /\ isAvailable \in BOOLEAN
    /\ listeners = {}
    /\ hostListeners = {}
    /\ hostStarted = FALSE
    /\ store = initialState
    /\ pending = 0
    /\ mounts = 0
    /\ mounted = FALSE
    /\ lastEvent = "init"
    /\ mOpener = NULL
    /\ mProgress = NULL
    /\ mLast = EffectRun(Len(effectBody), {}, FALSE, FALSE)

\* React runs the effect
EffectBegin ==
    /\ ~mounted
    /\ mounts < MaxMounts
    /\ pending < MaxPending
    /\ mounts' = mounts + 1
    /\ mounted' = TRUE
    /\ mLast' = EffectRun(0, {}, FALSE, FALSE)
    /\ lastEvent' = "Mount"
    /\ UNCHANGED <<openers, isAvailable, listeners, hostListeners, hostStarted,
                   store, pending, mOpener, mProgress>>

\* the next call of the body
EffectStep ==
    /\ mounted
    /\ mLast.pc < Len(effectBody)
    /\ LET stmt == effectBody[mLast.pc + 1]
           reg  == IF stmt.call = "addEventListener"
                   THEN addEventListener(isAvailable,
                          [listeners |-> listeners, host |-> hostListeners],
                          stmt.eventType, mounts)
                   ELSE [listeners |-> listeners, host |-> hostListeners]
       IN  /\ listeners' = reg.listeners
           /\ hostListeners' = reg.host
           /\ hostStarted' = IF stmt.call = "startEvents"
                             THEN startEvents(isAvailable, hostStarted)
                             ELSE hostStarted
           /\ pending' = IF stmt.call = "fetchPlayerJob" THEN pending + 1 ELSE pending
           /\ mLast' = EffectRun(
                         mLast.pc + 1,
                         IF stmt.call = "addEventListener"
                         THEN mLast.added \cup {stmt.eventType} ELSE mLast.added,
                         mLast.started \/ stmt.call = "startEvents",
                         mLast.fetched \/ stmt.call = "fetchPlayerJob")
           /\ lastEvent' = stmt.call
    /\ UNCHANGED <<openers, isAvailable, store, mounts, mounted, mOpener, mProgress>>

\* the cleanup the effect returned
EffectTeardown ==
    /\ EffectIdle
    /\ Unmount

NextEffect ==
    \/ EffectBegin
    \/ EffectStep
    \/ EffectTeardown
    \/ \E data \in PlayerInputs : EffectIdle /\ ChangePrimaryPlayer(data)
    \/ \E outcome \in HostOutcomes : EffectIdle /\ FetchResponse(outcome)

SpecEffect == InitEffect /\ [][NextEffect]_vars

\* C32: in every run of the effect, startEvents is called only after
\* addEventListener has been called for all five event types (and, with the
\* host available, the five callbacks of the run are registered with the
\* service and the host by then), and the initial fetchPlayerJob is issued
\* only after startEvents.
C32_RegisterStartFetch ==
    mounted =>
        /\ mLast.started =>
             /\ mLast.added = EventTypes
             /\ isAvailable =>
                  \A e \in EventTypes :
                      /\ <<e, mounts>> \in listeners
                      /\ <<e, mounts>> \in hostListeners
        /\ mLast.fetched => (mLast.started /\ (isAvailable => hostStarted))

\* the second run of the effect has issued its fetch
C32_Witness ==
    /\ mounted
    /\ mounts = 2
    /\ isAvailable
    /\ mLast.fetched
    /\ pending > 0

-----------------------------------------------------------------------------
(* The catalog loaded with definitions whose job code is not upper case.   *)
(* An Opener's job is any string; the definition files of the repository   *)
(* spell it in upper case.                                                 *)

warLowerCaseJob ==
    [id |-> "war-lower-case-job", job |-> <<"w","a","r">>,
     actions |-> << Action("tomahawk", <<"0","0","0","2","E","6">>) >>]

warMixedCaseJob ==
    [id |-> "war-mixed-case-job", job |-> <<"W","a","r">>,
     actions |-> << Action("tomahawk", <<"0","0","0","2","E","6">>) >>]

CatalogCaseDefs ==
    {warStandardDt71, blmStandardDt71, warLowerCaseJob, warMixedCaseJob}

CatalogCaseInputs ==
    {defs \in UNION {[1..n -> CatalogCaseDefs] :
                        n \in 0..Cardinality(CatalogCaseDefs)} :
        \A i, k \in 1..Len(defs) : defs[i] = defs[k] => i = k}

InitCatalogCase ==
    /\ \E defs \in CatalogCaseInputs :
          /\ openers = loadOpeners(defs)
          /\ mLast = CatalogCall("loadOpeners", defs, NULL, NULL)
    /\ isAvailable = FALSE
    /\ listeners = {}
    /\ hostListeners = {}
    /\ hostStarted = FALSE
    /\ store = initialState
    /\ pending = 0
    /\ mounts = 0
    /\ mounted = FALSE
    /\ lastEvent = "init"
    /\ mOpener = NULL
    /\ mProgress = NULL

NextCatalogCase == CatOpenersForJob

SpecCatalogCase == InitCatalogCase /\ [][NextCatalogCase]_vars

\* C39: every loaded opener o is an element of getOpenersForJob(o.job),
\* whatever the letter case of o.job in its definition.
C39_LoadedIsFound ==
    mLast.op = "getOpenersForJob" =>
        \A i \in 1..Len(mLast.loaded) :
            mLast.loaded[i].job = mLast.arg =>
                \E k \in 1..Len(mLast.result) : mLast.result[k] = mLast.loaded[i]

=============================================================================
